---- MODULE Spec2Model ----
(***************************************************************************)
(* HIPPO -> NMEA converter (hippo_pigpio.py): the byte-wise frame decoder  *)
(* of the main loop, the message dispatch with the navigation state it     *)
(* mutates, and the NMEA sentence encoders.                                *)
(*                                                                         *)
(* One iteration of "for i in range(raw_count)" is modelled in two steps:  *)
(* ProcessByte (lines 338-397, the framing part) and, when it has set      *)
(* parse_now, Dispatch (lines 400-564).  While parse_now is set nothing    *)
(* but Dispatch is enabled, as in the code, where both belong to the same  *)
(* loop iteration.                                                         *)
(***************************************************************************)
EXTENDS Integers, Sequences, FiniteSets, TLC

VARIABLES
    raw_data,        \* bytes of the last bb_serial_read not yet processed
    data,            \* working buffer of the frame being received
    bytes_read,
    expected_length,
    in_message,
    parse_now,
    unstuff_next,
    last_sat_time,
    position,        \* the global position dictionary
    gps_time,        \* the global gps_time dictionary
    now,             \* wall clock: the last value time.time() returned
    out,             \* sentences printed while handling the last byte
    reads,           \* number of bb_serial_read calls that returned data
    ev,              \* observation: what the last step did
    rx,              \* observation: the bytes received since the start byte
    faults,          \* observation: 1 once a framing fault has occurred
    clock_read,      \* observation: time.time() calls of the last step
    gsv_time,        \* observation: the clock when GSV was last printed, 0: never
    last_frame,      \* observation: the message dispatched last, <<>>: none
    repeated,        \* observation: the last dispatch repeated the one before
    fn,              \* functions on their own: the function applied last
    arg,             \* functions on their own: the argument
    res              \* functions on their own: the result

program ==
    <<raw_data, data, bytes_read, expected_length, in_message, parse_now,
      unstuff_next, last_sat_time, position, gps_time, now, out, reads,
      ev, rx, faults, clock_read, gsv_time, last_frame, repeated>>

vars == <<raw_data, data, bytes_read, expected_length, in_message, parse_now,
          unstuff_next, last_sat_time, position, gps_time, now, out, reads,
          ev, rx, faults, clock_read, gsv_time, last_frame, repeated,
          fn, arg, res>>

----------------------------------------------------------------------------
(* Protocol bytes and program constants *)

SYNC == 129        \* 0x81, start of message
ESC == 128         \* 0x80, next byte must be unstuffed
TERM == 130        \* 0x82, end of message
N_CHANNELS == 12
SAT_PERIOD == 5    \* seconds between satellite reports
SATS_PER_MSG == 4
FRAME_OVERHEAD == 5   \* 3 bytes header, checksum, end-of-message byte

\* Dictionary holding the expected HIPPO message lengths (data bytes only)
msg_len ==
    (4609 :> 4) @@ (4611 :> 24) @@ (4612 :> 16) @@ (5121 :> 9) @@ (5122 :> 31) @@
    (5633 :> 3) @@ (5634 :> 9) @@ (8705 :> 31) @@ (8706 :> 5) @@ (9729 :> 16) @@
    (9730 :> 16) @@ (12290 :> 46) @@ (12545 :> 28) @@ (12801 :> 18) @@
    (12803 :> 15) @@ (13057 :> 7) @@ (13827 :> 9) @@ (13828 :> 9) @@
    (13829 :> 2) @@ (13831 :> 10) @@ (13832 :> 9) @@ (16129 :> 13) @@
    (12291 :> 101) @@ (10258 :> 26) @@ (10259 :> 50) @@ (10260 :> 26) @@
    (10262 :> 74) @@ (10497 :> 11) @@ (10498 :> 21) @@ (10499 :> 5) @@
    (10500 :> 7) @@ (10501 :> 5) @@ (10503 :> 25) @@ (10504 :> 9)

\* A channel slot that was never reported (Python None)
None == [none |-> TRUE]

\* d[k] = v on a dictionary, adding the key when it is absent
Put(d, k, v) == [x \in DOMAIN d \cup {k} |-> IF x = k THEN v ELSE d[x]]

\* Mutant of Or80: the wrong bit is set
Or40(b) == IF (b \div 64) % 2 = 1 THEN b ELSE b + 64

\* databyte | 0x80
Or80(b) == IF b >= 128 THEN b ELSE b + 128

\* x & m for a byte x and a mask m that is a sum of distinct powers of two:
\* the bits of x selected by bit value w
Bit(x, w) == (x \div w) % 2

RECURSIVE SumSeq(_)
SumSeq(s) == IF s = <<>> THEN 0 ELSE Head(s) + SumSeq(Tail(s))

\* check_checksum_hippo(data)[0]
check_checksum_hippo(d) == (SumSeq(d) % 256) = 0

----------------------------------------------------------------------------
(* Numbers.  A 32-bit little-endian field is kept as its two 16-bit halves *)
(* (value = hi * 65536 + lo, never negative: the code adds shifted bytes); *)
(* a float is kept as the exact quotient the code computes.                *)

U16(b0, b1) == b0 + b1 * 256
U32(b0, b1, b2, b3) == [hi |-> b2 + b3 * 256, lo |-> b0 + b1 * 256]
Quot(n, d) == [num |-> n, den |-> d]

LATLON_DIV == "11930464.7111"   \* *= 2^-31 * 180.0
DOP_DIV == 256                  \* *= 0.00390625
HEADING_DIV == 32768            \* *= 2^-15

\* A comma-separated field of a sentence: the format applied and its arguments;
\* the empty field is Empty.
Fld(fmt, args) == <<fmt>> \o args
Empty == <<"">>
Lit(s) == <<"lit", s>>

----------------------------------------------------------------------------
(* Sentence encoders: each returns the sentence as its identifier and the  *)
(* list of its comma-separated fields.                                     *)

\* the time field of GGA and RMC
TimeField(pos, gpstime) ==
    IF "hour" \in DOMAIN gpstime
    THEN Fld("{:02d}{:02d}{:02d}", <<gpstime["hour"], gpstime["minute"], gpstime["second"]>>)
    ELSE Fld("convertToW {:02d}{:02d}{:02d}.{:02d}", <<pos["time_of_week"]>>)

\* coord >= 0 for a coordinate kept as Quot(U32, LATLON_DIV)
NonNegative(coord) == coord.num.hi >= 0

\* lat, N/S, lon, E/W of GGA and RMC
LatLonFields(pos) ==
    IF pos["position_valid"]
    THEN << Fld("decimalToMinutes", <<pos["lat"]>>),
            Lit(IF NonNegative(pos["lat"]) THEN "N" ELSE "S"),
            Fld("decimalToMinutes", <<pos["lon"]>>),
            Lit(IF NonNegative(pos["lon"]) THEN "E" ELSE "W") >>
    ELSE << Empty, Empty, Empty, Empty >>

make_nmea_gga(pos, gpstime) ==
    [kind |-> "GGA",
     parts |->
        << TimeField(pos, gpstime) >>
        \o LatLonFields(pos)
        \o << Lit("1") >>
        \o << IF "tracked_count" \in DOMAIN pos
              THEN Fld("{}", <<pos["tracked_count"]>>) ELSE Empty >>
        \o << Fld("{:.2f}", <<pos["hdop"]>>) >>
        \o << IF pos["altitude_valid"] THEN Fld("{:.1f}", <<pos["alt"]>>) ELSE Empty,
              Lit("M") >>
        \o << Empty, Lit("M"), Empty, Empty >> ]

make_nmea_rmc(pos, gpstime) ==
    [kind |-> "RMC",
     parts |->
        << TimeField(pos, gpstime), Lit("A") >>
        \o LatLonFields(pos)
        \o << IF pos["speed_valid"]
              THEN Fld("{:.2f} * 0.01943844", <<pos["speed"]>>) ELSE Empty >>
        \o << Fld("{}", <<pos["heading"]>>) >>
        \o << IF "year" \in DOMAIN gpstime
              THEN Fld("{:02d}{:02d}{:02d}",
                       <<gpstime["day"], gpstime["month"], gpstime["year"] % 100>>)
              ELSE Empty >>
        \o << Empty, Empty, Lit("A") >> ]

\* the four fields of satellite position first+i of a GSV sentence
GsvSat(pos, sats, k) ==
    IF k >= Len(sats) \/ pos["channel"][sats[k + 1]] = None
    THEN << Empty, Empty, Empty, Empty >>
    ELSE LET ch == pos["channel"][sats[k + 1]]
         IN  << Fld("{:d}", <<ch["prn"]>>),
                Fld("{:d}", <<ch["elevation"]>>),
                Fld("{:d}", <<ch["azimuth"]>>),
                IF ch["tracking"] THEN Fld("{:d}", <<ch["snr"]>>) ELSE Empty >>

make_nmea_gsv(pos, sats, msg_count, msg_n) ==
    LET first == msg_n * SATS_PER_MSG
    IN  [kind |-> "GSV",
         parts |->
            << Fld("{}", <<msg_count>>), Fld("{}", <<msg_n + 1>>),
               Fld("{}", <<Len(sats)>>) >>
            \o GsvSat(pos, sats, first) \o GsvSat(pos, sats, first + 1)
            \o GsvSat(pos, sats, first + 2) \o GsvSat(pos, sats, first + 3) ]

\* PRNs of the channels being tracked, in channel order (GSA)
RECURSIVE TrackedPrns(_, _)
TrackedPrns(pos, i) ==
    IF i >= N_CHANNELS THEN <<>>
    ELSE (IF pos["channel"][i] # None /\ pos["channel"][i]["tracking"]
          THEN << Fld("{}", <<pos["channel"][i]["prn"]>>) >> ELSE <<>>)
         \o TrackedPrns(pos, i + 1)

make_nmea_gsa(pos) ==
    LET prns == TrackedPrns(pos, 0)
    IN  [kind |-> "GSA",
         parts |->
            << Lit("A"), Lit("3") >>
            \o prns \o [i \in 1..(N_CHANNELS - Len(prns)) |-> Empty]
            \o << Fld("{}", <<pos["pdop"]>>), Fld("{}", <<pos["hdop"]>>),
                  Fld("{}", <<pos["vdop"]>>) >> ]

make_nmea_vtg(pos) ==
    [kind |-> "VTG",
     parts |->
        << Fld("{}", <<pos["heading"]>>), Empty,
           Fld("{} * 0.01943844", <<pos["speed"]>>),
           Fld("{} * 0.036", <<pos["speed"]>>),
           Lit("A") >> ]

make_nmea_zda(gpstime) ==
    [kind |-> "ZDA",
     parts |->
        (IF "hour" \in DOMAIN gpstime
         THEN << Fld("{:02d}{:02d}{:02d}",
                     <<gpstime["hour"], gpstime["minute"], gpstime["second"]>>),
                 Fld("{:02d}", <<gpstime["day"]>>),
                 Fld("{:02d}", <<gpstime["month"]>>),
                 Fld("{:04d}", <<gpstime["year"]>>) >>
         ELSE << Empty, Empty, Empty, Empty >>)
        \o << Empty, Empty >> ]

----------------------------------------------------------------------------
(* The state after the module-level initialisation (lines 245-328) *)

position_init ==
    [position_valid |-> FALSE, altitude_valid |-> FALSE,
     heading_valid |-> FALSE, speed_valid |-> FALSE,
     age |-> 0, time_of_week |-> U32(0, 0, 0, 0),
     lat |-> Quot(U32(0, 0, 0, 0), LATLON_DIV),
     lon |-> Quot(U32(0, 0, 0, 0), LATLON_DIV),
     alt |-> 0,
     heading |-> Quot(0, HEADING_DIV), speed |-> 0,
     hdop |-> Quot(255 * DOP_DIV, DOP_DIV), vdop |-> Quot(255 * DOP_DIV, DOP_DIV),
     pdop |-> Quot(255 * DOP_DIV, DOP_DIV),
     SV |-> 0,
     channel |-> [i \in 0..(N_CHANNELS - 1) |-> None]]

----------------------------------------------------------------------------
(* Bounds of the model *)

MaxReads == 2      \* bb_serial_read calls that return data
StartTime == 10    \* time.time() when the program starts
MaxNow == 22       \* the clock is not followed beyond this

\* how far the clock may have advanced when it is read again: not at all, by
\* exactly the report period, by more than it
ClockSteps == {0, SAT_PERIOD, SAT_PERIOD + 1}

----------------------------------------------------------------------------
(* The frame decoder: lines 338-397 for one databyte *)

\* line 342: a start byte outside a message
StartsMessage(databyte) == ~in_message /\ databyte = SYNC

\* lines 362-369: the expected length once the parser codes are in
ExpectedLength(d) ==
    LET packet == d[2] * 256 + d[3]
    IN  IF packet \notin DOMAIN msg_len THEN 0
        ELSE msg_len[packet] + FRAME_OVERHEAD

\* Mutant of CompletesMessage: a message whose checksum fails is not completed
CompletesMessageChecked(byte, n, expected, d) ==
    byte = TERM /\ (n = expected \/ expected = 0) /\ check_checksum_hippo(d)

\* Mutant of CompletesMessage: the length is not compared
CompletesMessageAnyLength(byte, n, expected, d) == byte = TERM

\* lines 371-383: an end byte at the expected length, or while the length is
\* not known, completes the message.  The checksum of the buffer d is computed
\* and only reported.
CompletesMessage(byte, n, expected, d) ==
    byte = TERM /\ (n = expected \/ expected = 0)

\* Mutant of FramingFault: the fault is seen one byte late
FramingFaultLate(byte, n, expected) ==
    byte # TERM /\ expected # 0 /\ n > expected

\* line 386: the expected end is reached, but not with an end byte
FramingFault(byte, n, expected) == byte # TERM /\ n = expected

\* Mutant of StartBuffer: the buffer is not cleared at a start byte
KeepBuffer == data

\* line 344: the buffer a start byte leaves
StartBuffer == <<>>

\* lines 350-359 on a whole received sequence: 0x80 is dropped and the byte
\* after it is stored with bit 0x80 set
RECURSIVE Unstuff(_, _)
Unstuff(s, flag) ==
    IF s = <<>> THEN <<>>
    ELSE IF Head(s) = ESC THEN Unstuff(Tail(s), TRUE)
    ELSE <<IF flag THEN Or80(Head(s)) ELSE Head(s)>> \o Unstuff(Tail(s), FALSE)

ProcessByte ==
    /\ ~parse_now
    /\ raw_data # <<>>
    /\ LET databyte == Head(raw_data)
           start == StartsMessage(databyte)
           in1 == in_message \/ start
           data1 == IF start THEN StartBuffer ELSE data
           read1 == IF start THEN 0 ELSE bytes_read
           exp1 == IF start THEN 0 ELSE expected_length
           unstuff1 == IF start THEN FALSE ELSE unstuff_next
           byte == IF unstuff1 THEN Or80(databyte) ELSE databyte
           data2 == Append(data1, byte)
           read2 == read1 + 1
           exp2 == IF read2 = 3 THEN ExpectedLength(data2) ELSE exp1
           rx1 == IF start THEN <<>> ELSE rx
       IN  /\ raw_data' = Tail(raw_data)
           /\ out' = <<>>
           /\ IF ~in1
              THEN /\ ev' = "skip"
                   /\ UNCHANGED <<data, bytes_read, expected_length, in_message,
                                  parse_now, unstuff_next, rx, faults>>
              ELSE IF databyte = ESC
              THEN /\ ev' = "escape"
                   /\ unstuff_next' = TRUE
                   /\ in_message' = in1
                   /\ data' = data1
                   /\ bytes_read' = read1
                   /\ expected_length' = exp1
                   /\ rx' = Append(rx1, databyte)
                   /\ UNCHANGED <<parse_now, faults>>
              ELSE IF CompletesMessage(byte, read2, exp2, data2)
              THEN /\ ev' = "complete"
                   /\ unstuff_next' = FALSE
                   /\ in_message' = FALSE
                   /\ parse_now' = TRUE
                   /\ data' = data2
                   /\ bytes_read' = read2
                   /\ expected_length' = exp2
                   /\ rx' = Append(rx1, databyte)
                   /\ UNCHANGED faults
              ELSE IF FramingFault(byte, read2, exp2)
              THEN /\ ev' = "fault"
                   /\ unstuff_next' = FALSE
                   /\ in_message' = FALSE
                   /\ parse_now' = FALSE
                   /\ data' = <<>>
                   /\ bytes_read' = 0
                   /\ expected_length' = 0
                   /\ rx' = <<>>
                   /\ faults' = 1
              ELSE /\ ev' = "store"
                   /\ unstuff_next' = FALSE
                   /\ in_message' = in1
                   /\ data' = data2
                   /\ bytes_read' = read2
                   /\ expected_length' = exp2
                   /\ rx' = Append(rx1, databyte)
                   /\ UNCHANGED <<parse_now, faults>>
    /\ clock_read' = 0
    /\ UNCHANGED <<last_sat_time, position, gps_time, now, reads, gsv_time,
                   last_frame, repeated, fn, arg, res>>

----------------------------------------------------------------------------
(* The message dispatch: lines 400-564 *)

\* data[k] of the code (0-based)
At(d, k) == d[k + 1]

\* Mutant of MessageType: the UTC time branch tests the class byte only
MessageTypeByClass(d) ==
    IF At(d, 1) = 48 /\ At(d, 2) = 2 THEN "fast_fix"
    ELSE IF At(d, 1) = 50 /\ At(d, 2) = 1 THEN "utc_summary"
    ELSE IF At(d, 1) = 50 THEN "utc_time"
    ELSE IF At(d, 1) = 49 /\ At(d, 2) = 1 THEN "gps_fix"
    ELSE IF At(d, 1) = 51 /\ At(d, 2) = 1 THEN "channel"
    ELSE "unhandled"

\* the branch of the if/elif chain of lines 406-559 a message takes
MessageType(d) ==
    IF At(d, 1) = 48 /\ At(d, 2) = 2 THEN "fast_fix"
    ELSE IF At(d, 1) = 50 /\ At(d, 2) = 1 THEN "utc_summary"
    ELSE IF At(d, 1) = 50 /\ At(d, 2) = 3 THEN "utc_time"
    ELSE IF At(d, 1) = 49 /\ At(d, 2) = 1 THEN "gps_fix"
    ELSE IF At(d, 1) = 51 /\ At(d, 2) = 1 THEN "channel"
    ELSE "unhandled"

\* the four validity flags of a status byte
WithStatus(pos, status) ==
    [pos EXCEPT !["position_valid"] = (Bit(status, 1) = 1),
                !["altitude_valid"] = (Bit(status, 2) = 1),
                !["heading_valid"] = (Bit(status, 4) = 1),
                !["speed_valid"] = (Bit(status, 8) = 1)]

\* lines 408-430: fast fix data with raw DR
FastFixPosition(pos, d) ==
    [WithStatus(pos, At(d, 0 + 3)) EXCEPT
        !["age"] = At(d, 2 + 3),
        !["time_of_week"] = U32(At(d, 3 + 3), At(d, 4 + 3), At(d, 5 + 3), At(d, 6 + 3)),
        !["lat"] = Quot(U32(At(d, 7 + 3), At(d, 8 + 3), At(d, 9 + 3), At(d, 10 + 3)),
                        LATLON_DIV),
        !["lon"] = Quot(U32(At(d, 11 + 3), At(d, 12 + 3), At(d, 13 + 3), At(d, 14 + 3)),
                        LATLON_DIV),
        !["alt"] = U16(At(d, 15 + 3), At(d, 16 + 3))]

\* lines 439-445: UTC time and constellation summary, the time part
UtcSummaryTime(gt, d) ==
    Put(Put(Put(Put(Put(Put(Put(gt,
        "year", U16(At(d, 0 + 3), At(d, 1 + 3))),
        "month", At(d, 2 + 3)),
        "day", At(d, 3 + 3)),
        "hour", At(d, 4 + 3)),
        "minute", At(d, 5 + 3)),
        "second", At(d, 6 + 3)),
        "offset", At(d, 7 + 3))

\* lines 447-459: UTC time and constellation summary, the position part
UtcSummaryPosition(pos, d) ==
    [pos EXCEPT
        !["SV"] = At(d, 17 + 3) % 16,
        !["pdop"] = Quot(U16(At(d, 8 + 3), At(d, 9 + 3)), DOP_DIV),
        !["hdop"] = Quot(U16(At(d, 10 + 3), At(d, 11 + 3)), DOP_DIV),
        !["vdop"] = Quot(U16(At(d, 12 + 3), At(d, 13 + 3)), DOP_DIV)]

\* time_of_week of the UTC time message (line 467)
UtcTimeOfWeek(d) == U32(At(d, 1 + 3), At(d, 2 + 3), At(d, 3 + 3), At(d, 4 + 3))

\* lines 469-478: UTC time
UtcTimeTime(gt, d) ==
    Put(Put(Put(Put(Put(Put(Put(Put(Put(gt,
        "time_of_week", UtcTimeOfWeek(d)),
        "week", U16(At(d, 5 + 3), At(d, 6 + 3))),
        "year", U16(At(d, 8 + 3), At(d, 9 + 3))),
        "month", At(d, 10 + 3)),
        "day", At(d, 11 + 3)),
        "hour", At(d, 12 + 3)),
        "minute", At(d, 13 + 3)),
        "second", At(d, 14 + 3)),
        "offset", At(d, 7 + 3))

\* Mutant of UtcTimePosition: the UTC time message also resets the age
UtcTimePositionResetsAge(pos, d) ==
    [pos EXCEPT !["time_of_week"] = UtcTimeOfWeek(d), !["age"] = 0]

\* line 468
UtcTimePosition(pos, d) == [pos EXCEPT !["time_of_week"] = UtcTimeOfWeek(d)]

\* lines 484-511: GPS fix message
GpsFixPosition(pos, d) ==
    LET p1 == Put(Put(pos, "fix_source", At(d, 4 + 3) % 64),
                  "altitude_hold", At(d, 4 + 3) \div 64)
    IN  [WithStatus(p1, At(d, 5 + 3)) EXCEPT
            !["lat"] = Quot(U32(At(d, 6 + 3), At(d, 7 + 3), At(d, 8 + 3), At(d, 9 + 3)),
                            LATLON_DIV),
            !["lon"] = Quot(U32(At(d, 10 + 3), At(d, 11 + 3), At(d, 12 + 3), At(d, 13 + 3)),
                            LATLON_DIV),
            !["alt"] = U16(At(d, 14 + 3), At(d, 15 + 3)),
            !["heading"] = Quot(U16(At(d, 16 + 3), At(d, 17 + 3)), HEADING_DIV),
            !["speed"] = U16(At(d, 18 + 3), At(d, 19 + 3))]

\* Mutant of ChannelIndex: an index out of range selects the first slot
ChannelIndexFirst(d) == IF At(d, 3) > 11 THEN 0 ELSE At(d, 3)

\* lines 519-521: the channel slot a channel status message addresses
ChannelIndex(d) == IF At(d, 3) > 11 THEN 11 ELSE At(d, 3)

\* lines 526-535: the fields of a channel status message
ChannelFields(d) ==
    [prn |-> At(d, 0 + 4),
     visible |-> (Bit(At(d, 1 + 4), 1) = 1),
     has_tracked |-> (Bit(At(d, 1 + 4), 4) = 1),
     tracking |-> (Bit(At(d, 1 + 4), 16) = 1),
     meets_mask |-> (Bit(At(d, 1 + 4), 64) = 1),
     snr |-> At(d, 2 + 4),
     azimuth |-> At(d, 3 + 4),
     elevation |-> At(d, 4 + 4),
     almanac |-> At(d, 5 + 4) % 4,
     ephemeris |-> (At(d, 5 + 4) \div 4) % 4]

\* lines 539-546: the visible channels, in channel order
RECURSIVE VisibleSats(_, _)
VisibleSats(channel, i) ==
    IF i >= N_CHANNELS THEN <<>>
    ELSE (IF channel[i] # None /\ channel[i]["visible"] THEN <<i>> ELSE <<>>)
         \o VisibleSats(channel, i + 1)

\* Mutant of TrackingCount: the last channel is not scanned
TrackingCountShort(channel) ==
    Cardinality({i \in 0..(N_CHANNELS - 2) : channel[i] # None /\ channel[i]["tracking"]})

\* lines 540-546: the number of channels tracking
TrackingCount(channel) ==
    Cardinality({i \in 0..(N_CHANNELS - 1) : channel[i] # None /\ channel[i]["tracking"]})

\* Mutant of ChannelPosition: all populated slots share one dictionary
ChannelPositionShared(pos, d) ==
    LET channel == [i \in 0..(N_CHANNELS - 1) |->
                      IF i = ChannelIndex(d) \/ pos["channel"][i] # None
                      THEN ChannelFields(d) ELSE None]
    IN  Put([pos EXCEPT !["channel"] = channel], "tracked_count", TrackingCount(channel))

\* Mutant of ChannelPosition: tracked_count is counted up, not recounted
ChannelPositionCounting(pos, d) ==
    LET channel == [pos["channel"] EXCEPT ![ChannelIndex(d)] = ChannelFields(d)]
        before == IF "tracked_count" \in DOMAIN pos THEN pos["tracked_count"] ELSE 0
    IN  Put([pos EXCEPT !["channel"] = channel], "tracked_count",
            before + (IF ChannelFields(d)["tracking"] THEN 1 ELSE 0))

\* lines 519-548: channel status, the update of position
ChannelPosition(pos, d) ==
    LET channel == [pos["channel"] EXCEPT ![ChannelIndex(d)] = ChannelFields(d)]
    IN  Put([pos EXCEPT !["channel"] = channel], "tracked_count", TrackingCount(channel))

\* Mutant of ReportDue: a report is due at exactly the period too
ReportDueAtLeast(sat_time, last) == sat_time >= last + SAT_PERIOD

\* Mutant of ReportDue: the period is subtracted
ReportDueSignSlip(sat_time, last) == sat_time > last - SAT_PERIOD

\* line 551
ReportDue(sat_time, last) == sat_time > last + SAT_PERIOD

\* Mutant of MsgCount: integer division instead of ceil
MsgCountFloor(sats) == Len(sats) \div SATS_PER_MSG

\* line 554
MsgCount(sats) == (Len(sats) + SATS_PER_MSG - 1) \div SATS_PER_MSG

\* lines 554-556: all GSV sentences of one report
GsvReport(pos) ==
    LET sats == VisibleSats(pos["channel"], 0)
        msg_count == MsgCount(sats)
    IN  [i \in 1..msg_count |-> make_nmea_gsv(pos, sats, msg_count, i - 1)]

\* Mutant of FastFixSentences: the GGA line 433 is printed too
FastFixSentencesWithGga(pos, gt) ==
    << make_nmea_rmc(pos, gt), make_nmea_gga(pos, gt), make_nmea_vtg(pos) >>

\* lines 432-434, 461-462, 480, 513-514: the sentences printed, in order
FastFixSentences(pos, gt) == << make_nmea_rmc(pos, gt), make_nmea_vtg(pos) >>
UtcSummarySentences(pos, gt) == << make_nmea_zda(gt), make_nmea_gsa(pos) >>
UtcTimeSentences(pos, gt) == << make_nmea_zda(gt) >>
GpsFixSentences(pos, gt) == << make_nmea_gsa(pos), make_nmea_gga(pos, gt) >>

\* position after the dispatch of message d
DispatchPosition(pos, d) ==
    CASE MessageType(d) = "fast_fix" -> FastFixPosition(pos, d)
      [] MessageType(d) = "utc_summary" -> UtcSummaryPosition(pos, d)
      [] MessageType(d) = "utc_time" -> UtcTimePosition(pos, d)
      [] MessageType(d) = "gps_fix" -> GpsFixPosition(pos, d)
      [] MessageType(d) = "channel" -> ChannelPosition(pos, d)
      [] OTHER -> pos

\* gps_time after the dispatch of message d
DispatchTime(gt, d) ==
    CASE MessageType(d) = "utc_summary" -> UtcSummaryTime(gt, d)
      [] MessageType(d) = "utc_time" -> UtcTimeTime(gt, d)
      [] OTHER -> gt

\* the sentences a message other than channel status prints, from the
\* updated position and gps_time
DispatchSentences(pos, gt, d) ==
    CASE MessageType(d) = "fast_fix" -> FastFixSentences(pos, gt)
      [] MessageType(d) = "utc_summary" -> UtcSummarySentences(pos, gt)
      [] MessageType(d) = "utc_time" -> UtcTimeSentences(pos, gt)
      [] MessageType(d) = "gps_fix" -> GpsFixSentences(pos, gt)
      [] OTHER -> <<>>

Dispatch ==
    /\ parse_now
    /\ parse_now' = FALSE
    /\ ev' = MessageType(data)
    /\ UNCHANGED <<raw_data, data, bytes_read, expected_length, in_message,
                   unstuff_next, reads, rx, faults>>
    /\ UNCHANGED <<fn, arg, res>>
    /\ last_frame' = data
    /\ repeated' = (data = last_frame)
    /\ position' = DispatchPosition(position, data)
    /\ gps_time' = DispatchTime(gps_time, data)
    /\ IF MessageType(data) = "channel"
       THEN \E sat_time \in {now + dt : dt \in ClockSteps} :
                /\ sat_time <= MaxNow
                /\ now' = sat_time
                /\ clock_read' = 1
                /\ IF ReportDue(sat_time, last_sat_time)
                   THEN /\ last_sat_time' = sat_time
                        /\ out' = GsvReport(position')
                   ELSE /\ out' = <<>>
                        /\ UNCHANGED last_sat_time
                /\ gsv_time' = IF out' # <<>> THEN sat_time ELSE gsv_time
       ELSE /\ out' = DispatchSentences(position', gps_time', data)
            /\ clock_read' = 0
            /\ UNCHANGED <<last_sat_time, now, gsv_time>>

----------------------------------------------------------------------------
(* The byte source: what bb_serial_read may return.  Frames are built as   *)
(* the receiver sends them: start byte, message identifier, data bytes and *)
(* additive checksum with 0x80, 0x81 and 0x82 stuffed, end byte.           *)

Pad(n, b) == [i \in 1..n |-> b]

RECURSIVE Stuff(_)
Stuff(s) ==
    IF s = <<>> THEN <<>>
    ELSE (IF Head(s) \in {ESC, SYNC, TERM} THEN <<ESC, Head(s) - 128>> ELSE <<Head(s)>>)
         \o Stuff(Tail(s))

\* the byte that makes the sum of the whole message 0 modulo 256
Checksum(body) == (256 - ((SumSeq(body) + TERM) % 256)) % 256

\* a well-formed message; off is added to the checksum (0: correct)
Wire(hi, lo, payload, off) ==
    LET body == <<SYNC, hi, lo>> \o payload
    IN  <<SYNC, hi, lo>>
        \o Stuff(payload \o <<(Checksum(body) + off) % 256>>)
        \o <<TERM>>

FastFixPayload(status, age, alt) ==
    <<status, 85, age>>
    \o <<251, 41, 179, 2>>          \* time of week 45296123 ms
    \o <<8, 90, 98, 2>>             \* lat raw 0x02625A08
    \o <<124, 61, 91, 251>>         \* lon raw 0xFB5B3D7C
    \o <<alt, 0>> \o Pad(29, 0)

UtcSummaryPayload(hour, sv) ==
    <<227, 7, 11, 5, hour, 21, 36, 2>>   \* 2019-11-05 hh:21:36, offset 2
    \o <<0, 2, 128, 1, 64, 1>>           \* pdop 2.0, hdop 1.5, vdop 1.25
    \o <<0, 0, 0, sv>>

UtcTimePayload(hour) ==
    <<85>> \o <<123, 0, 1, 0>> \o <<34, 8>> \o <<2>>   \* tow, week 2082, offset
    \o <<227, 7, 11, 6, hour, 22, 37>>

GpsFixPayload(fix, status, speed) ==
    <<85, 85, 85, 85, fix, status>>
    \o <<8, 90, 98, 2>> \o <<124, 61, 91, 251>>
    \o <<200, 0>> \o <<0, 64>> \o <<speed, 1>>
    \o Pad(8, 0)

ChannelPayload(index, prn, flags, snr) == <<index, prn, flags, snr, 90, 45, 6>>

FastFix(status, age, alt, off) == Wire(48, 2, FastFixPayload(status, age, alt), off)
UtcSummary(hour, sv, off) == Wire(50, 1, UtcSummaryPayload(hour, sv), off)
UtcTime(hour, off) == Wire(50, 3, UtcTimePayload(hour), off)
GpsFix(fix, status, speed, off) == Wire(49, 1, GpsFixPayload(fix, status, speed), off)
Channel(index, prn, flags, snr, off) == Wire(51, 1, ChannelPayload(index, prn, flags, snr), off)

\* s with its last byte replaced by b
EndWith(s, b) == SubSeq(s, 1, Len(s) - 1) \o <<b>>

HandledFrames ==
    { FastFix(15, 3, 200, 0), FastFix(0, 254, 100, 0), FastFix(15, 3, 200, 1),
      UtcSummary(12, 7, 0), UtcSummary(12, 7, 5),
      UtcTime(13, 0), UtcTime(13, 255),
      GpsFix(17, 15, 44, 0), GpsFix(200, 2, 0, 0), GpsFix(17, 15, 44, 3) }

ChannelFrames ==
    { Channel(0, 5, 17, 40, 0), Channel(3, 12, 17, 42, 0), Channel(3, 12, 0, 42, 0),
      Channel(3, 9, 1, 30, 0), Channel(11, 20, 16, 33, 0), Channel(12, 21, 17, 35, 0),
      Channel(130, 22, 1, 36, 0), Channel(255, 23, 85, 37, 0),
      Channel(3, 130, 17, 42, 0), Channel(3, 12, 17, 42, 7) }

\* six visible channels reported in one read
Burst ==
    Channel(0, 1, 17, 40, 0) \o Channel(1, 2, 1, 41, 0) \o Channel(2, 3, 17, 42, 0)
    \o Channel(4, 4, 17, 43, 0) \o Channel(5, 5, 1, 44, 0) \o Channel(7, 6, 17, 45, 0)

OtherFrames ==
    { Wire(54, 5, <<1, 2>>, 0),            \* 0x3605: length known, not handled
      Wire(54, 5, <<1, 2>>, 9),
      Wire(48, 127, <<1, 2, 3>>, 0),       \* 0x307F: length not known
      Wire(48, 127, <<1, 130, 3>>, 0),     \* the same with a stuffed 0x82
      Wire(50, 2, UtcTimePayload(14), 0) } \* 0x3202: length not known

BrokenFrames ==
    { EndWith(Channel(3, 12, 17, 42, 0), 0),       \* no end byte
      EndWith(Channel(5, 13, 17, 42, 0), SYNC),
      EndWith(UtcTime(13, 0), 2),
      <<SYNC, 51, 1, 3, 12, TERM>>,                \* end byte too early
      <<SYNC, 51, 1, 3, 12, TERM, 42, 90, 45, 6, 0, TERM>>,
      <<SYNC, 54, 5>> \o Channel(3, 12, 17, 42, 0), \* cut short, then a message
      <<SYNC, 51, 1, 3, ESC>>,
      <<SYNC>>, <<SYNC, TERM>>, <<SYNC, 51, TERM>>, <<SYNC, ESC, 2>>,
      <<TERM>>, <<0>>, <<ESC, 1>>, <<51, 1, 3>> }

Chunks == HandledFrames \cup ChannelFrames \cup {Burst} \cup OtherFrames \cup BrokenFrames

----------------------------------------------------------------------------

\* lines 245-265, 322-328: the state when the main loop starts
InitState ==
    /\ raw_data = <<>>
    /\ data = <<>>
    /\ bytes_read = 0
    /\ expected_length = 0
    /\ in_message = FALSE
    /\ parse_now = FALSE
    /\ unstuff_next = FALSE
    /\ last_sat_time = 0
    /\ position = position_init
    /\ gps_time = [k \in {} |-> 0]
    /\ now = StartTime
    /\ out = <<>>
    /\ reads = 0
    /\ ev = "init"
    /\ rx = <<>>
    /\ faults = 0
    /\ clock_read = 0
    /\ gsv_time = 0
    /\ last_frame = <<>>
    /\ repeated = FALSE

Init ==
    /\ InitState
    /\ fn = "main" /\ arg = <<>> /\ res = <<>>

\* line 331: bb_serial_read returns the bytes received since the last call
Read ==
    /\ ~parse_now
    /\ raw_data = <<>>
    /\ reads < MaxReads
    /\ \E chunk \in Chunks : raw_data' = chunk
    /\ reads' = reads + 1
    /\ ev' = "read"
    /\ out' = <<>>
    /\ clock_read' = 0
    /\ UNCHANGED <<data, bytes_read, expected_length, in_message, parse_now,
                   unstuff_next, last_sat_time, position, gps_time, now, rx, faults,
                   gsv_time, last_frame, repeated, fn, arg, res>>

Next == Read \/ ProcessByte \/ Dispatch

Spec == Init /\ [][Next]_vars

----------------------------------------------------------------------------
(* Vocabulary of the properties *)

\* a byte is waiting to be processed
Pending == ~parse_now /\ raw_data # <<>>
NextByte == Head(raw_data)
\* the value the waiting byte is stored as, inside a message
StoredByte == IF unstuff_next THEN Or80(NextByte) ELSE NextByte

\* the 2-byte message identifier of a buffer, once it is in
HasId(d) == Len(d) >= 3
Id(d) == d[2] * 256 + d[3]
KnownLength(d) == HasId(d) /\ Id(d) \in DOMAIN msg_len

\* the navigation state
Nav == <<position, gps_time>>

----------------------------------------------------------------------------
(* C1: framing fault.  When the decoder is inside a message of known       *)
(* expected length L and the byte that brings the buffer to L bytes is not *)
(* 0x82, the buffer is discarded, the decoder is idle, nothing is handed   *)
(* to the dispatcher, no sentence is printed, and position (with all its   *)
(* channel slots) and gps_time are unchanged.                              *)

C1_FaultCase ==
    /\ Pending /\ in_message /\ NextByte # ESC
    /\ expected_length # 0
    /\ bytes_read + 1 = expected_length
    /\ StoredByte # TERM

\* C1: a framing fault discards the buffer, leaves the decoder idle, hands
\* nothing to the dispatcher, prints nothing and changes no navigation state.
C1_FramingFaultDiscards ==
    [][C1_FaultCase =>
          /\ data' = <<>> /\ bytes_read' = 0
          /\ ~in_message' /\ ~parse_now'
          /\ out' = <<>>
          /\ Nav' = Nav]_vars

\* a framing fault has just been taken with a populated navigation state
C1_Witness ==
    /\ ev = "fault" /\ data = <<>> /\ ~in_message
    /\ position # position_init

----------------------------------------------------------------------------
(* C2: every message handed to the dispatcher whose identifier is in the   *)
(* length table holds exactly table length + 5 bytes and ends with 0x82;   *)
(* a 0x82 stored at any other position of such a message does not complete *)
(* it.                                                                     *)

C2_ExactLength ==
    parse_now /\ KnownLength(data) =>
        /\ Len(data) = msg_len[Id(data)] + FRAME_OVERHEAD
        /\ data[Len(data)] = TERM

C2_EarlyEndCase ==
    /\ Pending /\ in_message /\ NextByte # ESC
    /\ KnownLength(data)
    /\ StoredByte = TERM
    /\ Len(data) + 1 # msg_len[Id(data)] + FRAME_OVERHEAD

\* C2: a dispatched message of known length has exactly that length and ends
\* with 0x82; a 0x82 stored earlier does not complete it.
C2_KnownLengthFrames ==
    /\ []C2_ExactLength
    /\ [][C2_EarlyEndCase =>
            /\ ~parse_now' /\ in_message'
            /\ data' = Append(data, TERM)]_vars

\* a message of known length is dispatched that holds a 0x82 before its end
C2_Witness ==
    /\ parse_now /\ KnownLength(data)
    /\ \E i \in 1..(Len(data) - 1) : data[i] = TERM

----------------------------------------------------------------------------
(* C3: the decoder never hands a message of fewer than 3 bytes to the      *)
(* dispatcher.                                                             *)

\* C3: no message of fewer than 3 bytes is handed to the dispatcher.
C3_NoShortFrame == parse_now => Len(data) >= 3

----------------------------------------------------------------------------
(* C4: resynchronisation.  After a framing fault the decoder is idle with  *)
(* an empty buffer; the next 0x81 starts a message with a buffer holding   *)
(* only that byte; and a message handed to the dispatcher is the unstuffed *)
(* bytes received from its start byte on, whatever came before: a          *)
(* well-formed handled message that begins at that 0x81 is handed over     *)
(* complete.                                                               *)

\* the well-formed handled messages the byte source sends
GoodFrames ==
    {f \in HandledFrames \cup ChannelFrames : check_checksum_hippo(Unstuff(f, FALSE))}

C4_IdleAfterFault ==
    ev = "fault" =>
        /\ ~in_message /\ ~parse_now /\ ~unstuff_next
        /\ data = <<>> /\ bytes_read = 0 /\ expected_length = 0

C4_FromStartByte == parse_now => rx[1] = SYNC /\ data = Unstuff(rx, FALSE)

\* C4: after a framing fault the decoder is idle, the next 0x81 starts a fresh
\* message, and a well-formed message from there on is handed over intact.
C4_Resynchronizes ==
    /\ []C4_IdleAfterFault
    /\ []C4_FromStartByte
    /\ [][Pending /\ ~in_message /\ NextByte = SYNC =>
            /\ in_message' /\ ~parse_now' /\ ~unstuff_next'
            /\ data' = <<SYNC>> /\ bytes_read' = 1 /\ expected_length' = 0]_vars
    /\ [][Pending /\ in_message /\ Append(rx, NextByte) \in GoodFrames =>
            /\ parse_now'
            /\ data' = Unstuff(Append(rx, NextByte), FALSE)]_vars

\* after a framing fault, a well-formed handled message is handed over
C4_Witness == faults = 1 /\ parse_now /\ rx \in GoodFrames

----------------------------------------------------------------------------
(* C5: a completed message whose bytes do not sum to 0 modulo 256 is still *)
(* handed to the dispatcher, and its dispatch updates position and         *)
(* gps_time and prints the sentences exactly as the dispatch of the same   *)
(* message with the correct checksum byte.                                 *)

HandledIds == {12290, 12801, 12803, 12545, 13057}
Handled(d) == HasId(d) /\ Id(d) \in HandledIds

\* d with its checksum byte corrected
Repair(d) == [d EXCEPT ![Len(d) - 1] = (@ + 256 - (SumSeq(d) % 256)) % 256]

C5_CompleteCase ==
    /\ Pending /\ in_message /\ NextByte # ESC
    /\ StoredByte = TERM
    /\ (bytes_read + 1 = expected_length \/ expected_length = 0)
    /\ ~check_checksum_hippo(Append(data, TERM))

C5_DispatchCase == parse_now /\ Handled(data) /\ ~check_checksum_hippo(data)

\* C5: a message with a failing checksum is dispatched, with the effect of the
\* same message carrying the correct checksum.
C5_ChecksumIgnored ==
    /\ [][C5_CompleteCase => parse_now' /\ data' = Append(data, TERM)]_vars
    /\ [][C5_DispatchCase =>
            /\ check_checksum_hippo(Repair(data))
            /\ position' = DispatchPosition(position, Repair(data))
            /\ gps_time' = DispatchTime(gps_time, Repair(data))
            /\ out' = IF Id(data) # 13057
                      THEN DispatchSentences(position', gps_time', Repair(data))
                      ELSE IF ReportDue(now', last_sat_time)
                      THEN GsvReport(position') ELSE <<>>]_vars

\* a handled message with a failing checksum has been dispatched and
\* has printed sentences
C5_Witness ==
    /\ ev \in {"fast_fix", "utc_summary", "utc_time", "gps_fix", "channel"}
    /\ ~check_checksum_hippo(data)
    /\ position # position_init
    /\ out # <<>>

----------------------------------------------------------------------------
(* C6: a completed message whose identifier is not one of the five handled *)
(* ones, in the length table or not, is dropped: position, gps_time, the   *)
(* channel slots and last_sat_time are unchanged and nothing is printed.   *)

\* C6: a message with an identifier outside the five handled ones changes no
\* navigation state, not the throttle clock, and prints nothing.
C6_UnhandledDropped ==
    [][parse_now /\ HasId(data) /\ Id(data) \notin HandledIds =>
          /\ Nav' = Nav
          /\ last_sat_time' = last_sat_time
          /\ out' = <<>>]_vars

\* an unhandled message of known length was dropped with a populated state
C6_Witness ==
    /\ ev = "unhandled" /\ KnownLength(data)
    /\ Id(data) \notin HandledIds
    /\ position # position_init

----------------------------------------------------------------------------
(* C7: each dispatched message prints exactly the sentences of its type,   *)
(* in order, computed from the updated state: fast fix RMC then VTG; UTC   *)
(* and constellation ZDA then GSA; UTC time ZDA; GPS fix GSA then GGA; and *)
(* the dispatch is over before another input byte is taken.                *)

Kinds(o) == [i \in 1..Len(o) |-> o[i].kind]

C7_Is(id) == parse_now /\ HasId(data) /\ Id(data) = id

\* C7: each message type prints its sentences in its fixed order from the
\* updated state, before another byte is taken.
C7_SentencesPerType ==
    /\ [][C7_Is(12290) =>
            /\ Kinds(out') = <<"RMC", "VTG">>
            /\ out' = <<make_nmea_rmc(position', gps_time'), make_nmea_vtg(position')>>]_vars
    /\ [][C7_Is(12801) =>
            /\ Kinds(out') = <<"ZDA", "GSA">>
            /\ out' = <<make_nmea_zda(gps_time'), make_nmea_gsa(position')>>]_vars
    /\ [][C7_Is(12803) =>
            /\ Kinds(out') = <<"ZDA">>
            /\ out' = <<make_nmea_zda(gps_time')>>]_vars
    /\ [][C7_Is(12545) =>
            /\ Kinds(out') = <<"GSA", "GGA">>
            /\ out' = <<make_nmea_gsa(position'), make_nmea_gga(position', gps_time')>>]_vars
    /\ [][parse_now => ~parse_now' /\ raw_data' = raw_data]_vars

\* a fast fix was dispatched after gps_time was set, with bytes still waiting
C7_Witness ==
    /\ ev = "fast_fix" /\ Kinds(out) = <<"RMC", "VTG">>
    /\ "hour" \in DOMAIN gps_time

----------------------------------------------------------------------------
(* C8: the dispatch of a channel status message with index byte k in 0..11 *)
(* changes channel slot k only.                                            *)

\* C8: a channel status with index byte k in 0..11 changes channel slot k only.
C8_OnlySlotK ==
    [][C7_Is(13057) /\ At(data, 3) <= 11 =>
          \A j \in (0..(N_CHANNELS - 1)) \ {At(data, 3)} :
              position'["channel"][j] = position["channel"][j]]_vars

\* a channel status with index at most 11 was dispatched while another slot
\* was populated with other contents
C8_Witness ==
    /\ ev = "channel" /\ At(data, 3) <= 11
    /\ position["channel"][At(data, 3)] = ChannelFields(data)
    /\ \E j \in (0..(N_CHANNELS - 1)) \ {At(data, 3)} :
          /\ position["channel"][j] # None
          /\ position["channel"][j] # ChannelFields(data)

----------------------------------------------------------------------------
(* C9: the slot a channel status message writes is in 0..11: index bytes   *)
(* 0..11 select that slot, every larger index byte selects slot 11.        *)

C9_Slot(b) == IF b <= 11 THEN b ELSE 11

C9_AllIndexBytes ==
    \A b \in 0..255 :
        /\ ChannelIndex(<<SYNC, 51, 1, b>>) = C9_Slot(b)
        /\ ChannelIndex(<<SYNC, 51, 1, b>>) \in 0..11

\* C9: index bytes 0..11 write their own slot, every larger one writes slot 11.
C9_IndexClamped ==
    /\ []C9_AllIndexBytes
    /\ [][C7_Is(13057) =>
            /\ DOMAIN position'["channel"] = 0..(N_CHANNELS - 1)
            /\ position'["channel"][C9_Slot(At(data, 3))] = ChannelFields(data)
            /\ \A j \in (0..(N_CHANNELS - 1)) \ {C9_Slot(At(data, 3))} :
                  position'["channel"][j] = position["channel"][j]]_vars

\* a channel status with an index byte above 11 was written to slot 11
C9_Witness ==
    /\ ev = "channel" /\ At(data, 3) > 11
    /\ position["channel"][11] = ChannelFields(data)

----------------------------------------------------------------------------
(* C10: a channel status dispatch that is not throttled, with N visible    *)
(* channels, prints exactly ceil(N/4) GSV sentences numbered 1..ceil(N/4), *)
(* each with that total and with N; the visible channels are described     *)
(* once each in ascending channel order, four per sentence, and the        *)
(* satellite positions left over in the last sentence are four empty       *)
(* fields each.                                                            *)

C10_Visible(pos) ==
    {i \in 0..(N_CHANNELS - 1) : pos["channel"][i] # None /\ pos["channel"][i]["visible"]}

\* ceil(n / 4)
C10_Ceil4(n) == CHOOSE c \in 0..n : 4 * c >= n /\ 4 * c < n + 4

\* the j-th visible channel, j = 0 for the lowest
C10_Nth(pos, j) ==
    CHOOSE i \in C10_Visible(pos) : Cardinality({x \in C10_Visible(pos) : x < i}) = j

\* the four fields describing channel slot i
C10_Describes(pos, i) ==
    << <<"{:d}", pos["channel"][i]["prn"]>>,
       <<"{:d}", pos["channel"][i]["elevation"]>>,
       <<"{:d}", pos["channel"][i]["azimuth"]>>,
       IF pos["channel"][i]["tracking"]
       THEN <<"{:d}", pos["channel"][i]["snr"]>> ELSE <<"">> >>

C10_ReportOk(o, pos) ==
    LET n == Cardinality(C10_Visible(pos))
        total == C10_Ceil4(n)
    IN  /\ Len(o) = total
        /\ \A m \in 1..Len(o) :
              /\ o[m].kind = "GSV"
              /\ Len(o[m].parts) = 3 + 4 * SATS_PER_MSG
              /\ o[m].parts[1] = <<"{}", total>>
              /\ o[m].parts[2] = <<"{}", m>>
              /\ o[m].parts[3] = <<"{}", n>>
              /\ \A g \in 0..(SATS_PER_MSG - 1) :
                    LET j == (m - 1) * SATS_PER_MSG + g
                    IN  SubSeq(o[m].parts, 4 + 4 * g, 7 + 4 * g) =
                           IF j < n THEN C10_Describes(pos, C10_Nth(pos, j))
                           ELSE << <<"">>, <<"">>, <<"">>, <<"">> >>

\* C10: an unthrottled report of N visible channels is ceil(N/4) numbered GSV
\* sentences describing them in channel order, the rest padded empty.
C10_GsvReport ==
    [][C7_Is(13057) /\ now' > last_sat_time + SAT_PERIOD =>
          C10_ReportOk(out', position')]_vars

\* an unthrottled report of more than four visible channels, the last
\* sentence padded
C10_Witness ==
    /\ ev = "channel" /\ last_sat_time = now
    /\ Cardinality(C10_Visible(position)) > SATS_PER_MSG
    /\ Cardinality(C10_Visible(position)) % SATS_PER_MSG # 0
    /\ Len(out) = 2

----------------------------------------------------------------------------
(* C11: on a channel status dispatch, when at least 5 seconds have elapsed *)
(* since last_sat_time the GSV sentences are printed and last_sat_time is  *)
(* set to the clock; otherwise nothing is printed and last_sat_time is     *)
(* unchanged.  The code tests sat_time > last_sat_time + 5.0: at exactly   *)
(* 5 seconds nothing is printed.                                           *)

C11_Effect(due) ==
    IF due
    THEN out' = GsvReport(position') /\ last_sat_time' = now'
    ELSE out' = <<>> /\ last_sat_time' = last_sat_time

\* C11 as stated: GSV is printed and the throttle clock set when the elapsed
\* time is at least 5 seconds, and only then.
C11_AtLeastPeriod ==
    [][C7_Is(13057) => C11_Effect(now' - last_sat_time >= SAT_PERIOD)]_vars

\* C11 amended: GSV is printed and the throttle clock set when the elapsed
\* time is more than 5 seconds, and only then.
C11_MoreThanPeriod ==
    [][C7_Is(13057) => C11_Effect(now' - last_sat_time > SAT_PERIOD)]_vars

\* a channel status dispatched exactly 5 seconds after the last report, with
\* visible channels, printed nothing
C11_Witness ==
    /\ ev = "channel" /\ now = last_sat_time + SAT_PERIOD
    /\ C10_Visible(position) # {}
    /\ out = <<>>

----------------------------------------------------------------------------
(* C12: with a clock that never goes back, two dispatches that both print  *)
(* GSV sentences are at least 5 seconds apart; the clock is read once in   *)
(* each channel status dispatch and nowhere else.                          *)

\* C12: GSV reports are at least 5 seconds apart and time.time() is called
\* once per channel status dispatch, never per byte or for another message.
C12_RateLimited ==
    /\ [][C7_Is(13057) /\ out' # <<>> /\ gsv_time # 0 =>
            now' - gsv_time >= SAT_PERIOD]_vars
    /\ [][now' >= now]_vars
    /\ [][clock_read' = IF C7_Is(13057) THEN 1 ELSE 0]_vars

\* a second GSV report has been printed
C12_Witness ==
    /\ ev = "channel" /\ out # <<>>
    /\ gsv_time = now /\ now > StartTime + SAT_PERIOD

----------------------------------------------------------------------------
(* C13: a message dispatched twice in a row leaves position (channel slots *)
(* included) and gps_time as the first dispatch left them; only            *)
(* last_sat_time may differ.                                                *)

\* C13: when the message being dispatched is the one dispatched last, the
\* dispatch changes neither position, nor its channel slots, nor gps_time.
C13_Idempotent ==
    [][parse_now /\ data = last_frame =>
          /\ position' = position
          /\ gps_time' = gps_time
          /\ \A i \in 0..(N_CHANNELS - 1) :
                position'["channel"][i] = position["channel"][i]]_vars

\* a channel status that tracks a satellite has been dispatched twice in a row
C13_Witness ==
    /\ repeated /\ ev = "channel"
    /\ position["channel"][ChannelIndex(last_frame)]["tracking"]

----------------------------------------------------------------------------
(* C14: the fast fix, UTC and constellation, UTC time and GPS fix messages *)
(* change only the fields they populate; none changes a channel slot; the  *)
(* sentence encoders called by the handlers change nothing.                *)

\* new is old except for the keys given
SameExcept(old, new, keys) ==
    /\ DOMAIN old \subseteq DOMAIN new
    /\ \A k \in DOMAIN new \ keys : k \in DOMAIN old /\ new[k] = old[k]

StatusKeys == {"position_valid", "altitude_valid", "heading_valid", "speed_valid"}
FastFixKeys == StatusKeys \cup {"age", "time_of_week", "lat", "lon", "alt"}
UtcSummaryTimeKeys == {"year", "month", "day", "hour", "minute", "second", "offset"}
UtcSummaryKeys == {"pdop", "hdop", "vdop", "SV"}
UtcTimeKeys == {"time_of_week"}
GpsFixKeys ==
    StatusKeys \cup {"fix_source", "altitude_hold", "lat", "lon", "alt", "heading", "speed"}

\* the dispatch step changes position on the keys given at most, and gps_time
\* not at all unless time is TRUE
C14_Frame(keys, time) ==
    /\ SameExcept(position, position', keys)
    /\ time \/ gps_time' = gps_time

\* C14: a dispatch of one of the four fix and time messages, the sentences it
\* prints included, changes only the fields that message populates.
C14_OnlyPopulated ==
    /\ [][C7_Is(12290) => C14_Frame(FastFixKeys, FALSE)]_vars
    /\ [][C7_Is(12801) => /\ C14_Frame(UtcSummaryKeys, TRUE)
                          /\ SameExcept(gps_time, gps_time', UtcSummaryTimeKeys)]_vars
    /\ [][C7_Is(12803) => C14_Frame(UtcTimeKeys, TRUE)]_vars
    /\ [][C7_Is(12545) => C14_Frame(GpsFixKeys, FALSE)]_vars
    /\ [][C7_Is(12290) \/ C7_Is(12801) \/ C7_Is(12803) \/ C7_Is(12545) =>
             position'["channel"] = position["channel"]]_vars

\* a UTC time message has been dispatched and the age of an earlier fast fix
\* is still there
C14_Witness ==
    /\ ev = "utc_time" /\ position["age"] # 0
    /\ position["time_of_week"] = UtcTimeOfWeek(last_frame)

----------------------------------------------------------------------------
(* C15: the latitude and longitude of the fast fix and GPS fix messages    *)
(* are signed 32-bit values: with bit 31 of the raw value set the          *)
(* coordinate is negative and the hemisphere letter is S or W.  The code   *)
(* adds the shifted bytes (lines 413-414, 487-488), which is never         *)
(* negative, so the letter is always N or E.                               *)

\* bit 31 of the little-endian 32-bit field whose last byte is data[k]
C15_Bit31(d, k) == At(d, k) >= 128

\* the hemisphere letters a sentence of kind k in o carries at parts ns and ew
C15_Letters(o, k, ns, ew, south, west) ==
    \A i \in DOMAIN o :
        o[i].kind = k =>
            /\ o[i].parts[ns] = Lit(IF south THEN "S" ELSE "N")
            /\ o[i].parts[ew] = Lit(IF west THEN "W" ELSE "E")

\* C15: the RMC sentence of a fast fix and the GGA sentence of a GPS fix with
\* a valid position say S for a latitude, W for a longitude whose raw value
\* has bit 31 set, and N, E otherwise.
C15_SignedCoordinates ==
    /\ ev = "fast_fix" /\ position["position_valid"] =>
          C15_Letters(out, "RMC", 4, 6,
                      C15_Bit31(last_frame, 10 + 3), C15_Bit31(last_frame, 14 + 3))
    /\ ev = "gps_fix" /\ position["position_valid"] =>
          C15_Letters(out, "GGA", 3, 5,
                      C15_Bit31(last_frame, 9 + 3), C15_Bit31(last_frame, 13 + 3))

----------------------------------------------------------------------------
(* Text.  A string is the sequence of its characters.                      *)

Digits == <<"0", "1", "2", "3", "4", "5", "6", "7", "8", "9">>
HexDigits == Digits \o <<"A", "B", "C", "D", "E", "F">>
LowerHexDigits == Digits \o <<"a", "b", "c", "d", "e", "f">>
Letters ==
    <<"A", "B", "C", "D", "E", "F", "G", "H", "I", "J", "K", "L", "M",
      "N", "O", "P", "Q", "R", "S", "T", "U", "V", "W", "X", "Y", "Z">>

IndexOf(s, c) == CHOOSE i \in DOMAIN s : s[i] = c

\* ord(c) for the characters of a sentence
ord(c) ==
    IF c = "$" THEN 36
    ELSE IF c = "*" THEN 42
    ELSE IF c = "," THEN 44
    ELSE IF c = "-" THEN 45
    ELSE IF c = "." THEN 46
    ELSE IF \E i \in DOMAIN Digits : Digits[i] = c THEN 47 + IndexOf(Digits, c)
    ELSE 64 + IndexOf(Letters, c)

\* a ^ b
RECURSIVE Xor(_, _)
Xor(a, b) ==
    IF a = 0 /\ b = 0 THEN 0
    ELSE ((a + b) % 2) + 2 * Xor(a \div 2, b \div 2)

\* n written in base Len(digits), n >= 0
RECURSIVE Numeral(_, _)
Numeral(n, digits) ==
    IF n < Len(digits) THEN <<digits[n + 1]>>
    ELSE Numeral(n \div Len(digits), digits) \o <<digits[(n % Len(digits)) + 1]>>

\* a number format with fill 0 and a minimum width
RECURSIVE ZeroPad(_, _)
ZeroPad(text, width) ==
    IF Len(text) >= width THEN text ELSE ZeroPad(<<"0">> \o text, width)

\* '{:02d}'.format(n), n >= 0
Format02d(n) == ZeroPad(Numeral(n, Digits), 2)

\* Mutant of Format02X: lower case digits
Format02x(n) == ZeroPad(Numeral(n, LowerHexDigits), 2)

\* '{:02X}'.format(n)
Format02X(n) == ZeroPad(Numeral(n, HexDigits), 2)

\* '{:02.4f}'.format(x) for x = n / 10000, n >= 0: four decimals, and the
\* minimum width 2 counts the whole text
Format02_4f(n) ==
    ZeroPad(Numeral(n \div 10000, Digits) \o <<".">> \o ZeroPad(Numeral(n % 10000, Digits), 4),
            2)

\* lines 30-39
convertToW(tow) ==
    LET msecs == tow % 1000
        tow1 == tow \div 1000
        secs == tow1 % 60
        tow2 == tow1 \div 60
        mins == tow2 % 60
        tow3 == tow2 \div 60
        hours == tow3 % 24
    IN  <<hours, mins, secs, msecs>>

\* lines 67-68, 113-114: the time of GGA and RMC when gps_time has no hour
\* (the field, without the comma that ends it)
TimeOfWeekField(tow) ==
    LET t == convertToW(tow)
    IN  Format02d(t[1]) \o Format02d(t[2]) \o Format02d(t[3]) \o <<".">> \o Format02d(t[4])

\* lines 50-56, for a coordinate of k / 600000 degrees, that is k ten
\* thousandths of a minute: the decimals Python prints are then exact
decimalToMinutes(k) ==
    LET coord == IF k < 0 THEN -k ELSE k
        degrees == coord \div 600000
        minutes == coord - degrees * 600000
    IN  Format02d(degrees) \o Format02_4f(minutes)

RECURSIVE XorOrd(_)
XorOrd(text) == IF text = <<>> THEN 0 ELSE Xor(ord(Head(text)), XorOrd(Tail(text)))

\* Mutant of checksum_nmea: the leading $ is not stripped
checksum_nmea_all(text) == XorOrd(text)

\* lines 41-48
checksum_nmea(text) == XorOrd(Tail(text))

\* the last statement of every encoder (lines 100, 141, 171, 195, 211, 227)
AppendChecksum(output) == output \o <<"*">> \o Format02X(checksum_nmea(output))

\* lines 169-172: the end of make_nmea_gsv
GsvEnd(msg) == AppendChecksum(SubSeq(msg, 1, Len(msg) - 1))

HDR_GGA == <<"$", "G", "P", "G", "G", "A", ",">>
HDR_RMC == <<"$", "G", "P", "R", "M", "C", ",">>
HDR_GSV == <<"$", "G", "P", "G", "S", "V", ",">>
HDR_GSA == <<"$", "G", "P", "G", "S", "A", ",", "A", ",">>
HDR_VTG == <<"$", "G", "P", "V", "T", "G", ",">>
HDR_ZDA == <<"$", "G", "P", "Z", "D", "A", ",">>

----------------------------------------------------------------------------
(* The functions of the program on their own: an argument is drawn from a  *)
(* bounded set and the function is applied to it.                          *)

MaxUnits == 2      \* bytes of a payload before stuffing
MaxWeekDay == 6    \* days of the week a time of week reaches

\* a payload byte as it is sent: 0x80, 0x81 and 0x82 escaped
StuffedUnits == {Stuff(<<b>>) : b \in {0, 1, 2, 5, 127, ESC, SYNC, TERM, 131, 255}}

\* the stuffed payloads of at most n bytes
RECURSIVE StuffedPayloads(_)
StuffedPayloads(n) ==
    IF n = 0 THEN {<<>>}
    ELSE LET shorter == StuffedPayloads(n - 1)
         IN  shorter \cup {u \o s : u \in StuffedUnits, s \in shorter}

\* times of week in milliseconds
TimesOfWeek ==
    {((((d * 24 + h) * 60 + m) * 60) + s) * 1000 + ms :
        d \in {0, MaxWeekDay}, h \in {0, 12, 23}, m \in {0, 59}, s \in {0, 7},
        ms \in {0, 5, 50, 123, 999}}

\* coordinates in ten thousandths of a minute
Coordinates ==
    {sign * (deg * 600000 + m) :
        sign \in {1, -1}, deg \in {0, 5, 10, 60, 179},
        m \in {0, 7400, 99999, 100000, 123456, 599999}}

\* the text of a sentence before its checksum
Headers ==
    {HDR_GGA, HDR_RMC, HDR_GSA, HDR_VTG, HDR_ZDA}
BodyFields ==
    {<<>>, <<",">>, <<"A">>, <<"3", ",">>, <<"1", "2", ".", "5", "0", ",", "M", ",">>}
    \cup {TimeOfWeekField(t) \o <<",">> : t \in {0, 45296123, 86399999}}
    \cup {decimalToMinutes(c) \o <<",", "N", ",">> : c \in {0, 6007400, 107999999}}
Bodies == {h \o f \o g : h \in Headers, f \in BodyFields, g \in BodyFields}
GsvBodies ==
    {HDR_GSV \o f \o <<",", ",", ",", ",">> :
        f \in {<<"1", ",", "1", ",", "0", ",">>,
               <<"2", ",", "1", ",", "5", ",", "2", "2", ",", "4", "5", ",", "1", "8", "0", ",", "4", "0", ",">>,
               <<"1", ",", "1", ",", "1", ",", "7", ",", "9", "0", ",", "0", ",", ",">>}}

PureInputs ==
    {<<"wire", w>> : w \in StuffedPayloads(MaxUnits)}
    \cup {<<"tow", t>> : t \in TimesOfWeek}
    \cup {<<"coord", c>> : c \in Coordinates}
    \cup {<<"body", b>> : b \in Bodies}
    \cup {<<"gsv body", b>> : b \in GsvBodies}

PureInit ==
    /\ InitState
    /\ \E i \in PureInputs : fn = i[1] /\ arg = i[2]
    /\ res = <<>>

\* lines 350-359 applied to the payload of a message
UnstuffPayload ==
    /\ fn = "wire"
    /\ fn' = "unstuffed"
    /\ res' = Unstuff(arg, FALSE)
    /\ UNCHANGED <<program, arg>>

\* the payload is stuffed again
StuffPayload ==
    /\ fn = "unstuffed"
    /\ fn' = "restuffed"
    /\ res' = Stuff(res)
    /\ UNCHANGED <<program, arg>>

RenderTime ==
    /\ fn = "tow"
    /\ fn' = "time"
    /\ res' = TimeOfWeekField(arg)
    /\ UNCHANGED <<program, arg>>

RenderCoordinate ==
    /\ fn = "coord"
    /\ fn' = "coordinate"
    /\ res' = decimalToMinutes(arg)
    /\ UNCHANGED <<program, arg>>

EndSentence ==
    /\ fn = "body"
    /\ fn' = "sentence"
    /\ res' = AppendChecksum(arg)
    /\ UNCHANGED <<program, arg>>

EndGsvSentence ==
    /\ fn = "gsv body"
    /\ fn' = "sentence"
    /\ res' = GsvEnd(arg)
    /\ UNCHANGED <<program, arg>>

PureNext ==
    \/ UnstuffPayload \/ StuffPayload
    \/ RenderTime \/ RenderCoordinate
    \/ EndSentence \/ EndGsvSentence

PureSpec == PureInit /\ [][PureNext]_vars

----------------------------------------------------------------------------
(* C16: a stuffed payload that is unstuffed as the decoder unstuffs it and *)
(* stuffed again is the stuffed payload that was received.                 *)

----------------------------------------------------------------------------
(* C17: every sentence starts with $ and ends with * and two upper case    *)
(* hexadecimal digits, the exclusive or of the characters between $ and *. *)

\* the value of an upper case hexadecimal digit, -1 for another character
C17_HexValue(c) ==
    IF \E i \in DOMAIN HexDigits : HexDigits[i] = c THEN IndexOf(HexDigits, c) - 1 ELSE -1

\* the exclusive or of the characters i..j of text
RECURSIVE C17_XorOf(_, _, _)
C17_XorOf(text, i, j) ==
    IF i > j THEN 0 ELSE Xor(ord(text[j]), C17_XorOf(text, i, j - 1))

\* C17: a finished sentence is $, a text without $ or *, *, and two upper
\* case hexadecimal digits whose value is the exclusive or of that text.
C17_Checksummed ==
    fn = "sentence" =>
        LET n == Len(res)
        IN  /\ n >= 4
            /\ res[1] = "$"
            /\ res[n - 2] = "*"
            /\ \A i \in 2..(n - 3) : res[i] \notin {"$", "*"}
            /\ C17_HexValue(res[n - 1]) >= 0
            /\ C17_HexValue(res[n]) >= 0
            /\ 16 * C17_HexValue(res[n - 1]) + C17_HexValue(res[n])
                  = C17_XorOf(res, 2, n - 3)

\* a sentence whose checksum has a letter digit
C17_Witness ==
    /\ fn = "sentence"
    /\ \E i \in 11..16 : res[Len(res)] = HexDigits[i] \/ res[Len(res) - 1] = HexDigits[i]

----------------------------------------------------------------------------
(* C18: the time of a sentence taken from the time of week is HHMMSS.mmm,  *)
(* the milliseconds in three digits.  The code formats them with {:02d}:   *)
(* 5 ms is printed as .05.                                                 *)

\* C18: the time field is two digits each of hours, minutes and seconds, a
\* point, and the three digits of the milliseconds.
C18_ThreeDigitMillis ==
    fn = "time" =>
        LET t == convertToW(arg)
        IN  res = ZeroPad(Numeral(t[1], Digits), 2) \o ZeroPad(Numeral(t[2], Digits), 2)
                  \o ZeroPad(Numeral(t[3], Digits), 2) \o <<".">>
                  \o ZeroPad(Numeral(arg % 1000, Digits), 3)

----------------------------------------------------------------------------
(* C19: a coordinate is printed as the degrees in two digits and the       *)
(* minutes as MM.MMMM.  The code formats the minutes with {:02.4f}, whose  *)
(* width 2 counts the whole text: minutes below 10 have one digit before   *)
(* the point.                                                              *)

\* C19: the coordinate field is the degrees in two digits, the whole minutes
\* in two digits, a point and four decimals.
C19_TwoDigitMinutes ==
    fn = "coordinate" =>
        LET coord == IF arg < 0 THEN -arg ELSE arg
            minutes == coord % 600000
        IN  res = ZeroPad(Numeral(coord \div 600000, Digits), 2)
                  \o ZeroPad(Numeral(minutes \div 10000, Digits), 2) \o <<".">>
                  \o ZeroPad(Numeral(minutes % 10000, Digits), 4)

----------------------------------------------------------------------------
(* C20: only a 0x82 that was not escaped ends a message: 0x80 0x02 is a    *)
(* payload byte.  The code compares the byte after unstuffing with 0x82    *)
(* (line 371), so an escaped 0x82 ends a message of unknown length, and a  *)
(* message of known length when it is the last byte expected.              *)

\* C20: the byte that completed a message was received as 0x82 and the byte
\* before it was not the escape byte.
C20_RawTerminator ==
    ev = "complete" =>
        /\ rx[Len(rx)] = TERM
        /\ Len(rx) >= 2 => rx[Len(rx) - 1] # ESC

----------------------------------------------------------------------------
(* C21: after a channel status dispatch, throttled or not, the slot it     *)
(* addresses holds the fields of the message and tracked_count is the      *)
(* number of populated slots that are tracking; that stays so in every     *)
(* state until the next channel status dispatch.                           *)

\* the populated slots of pos whose tracking flag is set
C21_Tracking(pos) ==
    {i \in DOMAIN pos["channel"] :
        pos["channel"][i] # None /\ pos["channel"][i]["tracking"]}

\* tracked_count, once there is one, is the number of tracking slots
C21_CountAgrees(pos) ==
    "tracked_count" \in DOMAIN pos =>
        pos["tracked_count"] = Cardinality(C21_Tracking(pos))

\* C21: a channel status dispatch leaves the fields of its message in the
\* slot addressed and sets tracked_count, and in every state tracked_count
\* is the number of populated slots that are tracking.
C21_TrackedCount ==
    /\ [][C7_Is(13057) =>
            /\ position'["channel"][IF At(data, 3) > 11 THEN 11 ELSE At(data, 3)]
                  = ChannelFields(data)
            /\ "tracked_count" \in DOMAIN position'
            /\ C21_CountAgrees(position')]_vars
    /\ []C21_CountAgrees(position)
    /\ []("tracked_count" \in DOMAIN position \/ C21_Tracking(position) = {})

\* a GPS fix was dispatched after two tracking channels were reported, the
\* second report throttled: the clock has not moved since the first
C21_Witness ==
    /\ ev = "gps_fix" /\ now = StartTime
    /\ "tracked_count" \in DOMAIN position
    /\ position["tracked_count"] >= 2

====
